---- MODULE Spec2Model ----
(***************************************************************************)
(* post_rs: send and receive the content of a directory over a socket.    *)
(*                                                                         *)
(* One listener process ("L", started without -i) and the connector       *)
(* processes that connect to it.  Every connection has two endpoints, one *)
(* per process; each endpoint runs directory_send or directory_receive.   *)
(* Byte strings (paths, names, file contents, the bytes on a socket) are  *)
(* sequences of numbers 0..255.                                            *)
(***************************************************************************)
EXTENDS Integers, Sequences, FiniteSets, TLC

\* ------------------------------------------------------------------------
\* Program constants
\* ------------------------------------------------------------------------

\* const BUFFER_SIZE: usize = 1024
BUFFER_SIZE == 1024

\* read_string: "else if str_len < 4096"
STRING_LIMIT == 4096

\* read_u64: let mut len_bytes = [0; 8]
U64_BYTES == 8

\* std::path::MAIN_SEPARATOR on the build target ('/')
MAIN_SEPARATOR == 47

\* "\0", the character normalize_name puts in place of the separator
NUL == 0

\* The largest number TLC's integers hold.  A u64 read off the wire
\* that is larger is represented by this value: the program only compares
\* such a number with 0, 4096 and 1024 and counts it down against a stream
\* that is always shorter.
U64_CAP == 127 * 16777216 + 16777215

\* ------------------------------------------------------------------------
\* Byte strings
\* ------------------------------------------------------------------------

Min(a, b) == IF a < b THEN a ELSE b

Drop(s, n) == SubSeq(s, n + 1, Len(s))

IsPrefix(s, t) == Len(s) <= Len(t) /\ SubSeq(t, 1, Len(s)) = s

\* n bytes, the i-th being (seed + 7 i) mod 251: the content of a test file
Content(seed, n) == [i \in 1..n |-> (seed + 7 * i) % 251]

\* u64::to_be_bytes, for the numbers TLC's integers hold
to_be_bytes(data) ==
    << 0, 0, 0, 0, (data \div 16777216) % 256, (data \div 65536) % 256,
       (data \div 256) % 256, data % 256 >>

\* u64::from_be_bytes
from_be_bytes(b) ==
    IF b[1] # 0 \/ b[2] # 0 \/ b[3] # 0 \/ b[4] # 0 \/ b[5] >= 128
    THEN U64_CAP
    ELSE ((b[5] * 256 + b[6]) * 256 + b[7]) * 256 + b[8]

\* String::from_utf8 succeeds: the bytes are well-formed UTF-8.  Every byte is
\* ASCII, or a lead byte followed by the continuation bytes it announces, or a
\* continuation byte that a lead byte at most three places before it announces.
Utf8Width(b) ==
    IF b < 128 THEN 1
    ELSE IF b >= 194 /\ b <= 223 THEN 2
    ELSE IF b >= 224 /\ b <= 239 THEN 3
    ELSE IF b >= 240 /\ b <= 244 THEN 4
    ELSE 0

IsUtf8(s) ==
    LET n == Len(s)
        IsCont(i) == i >= 1 /\ i <= n /\ s[i] >= 128 /\ s[i] <= 191
        LeadOk(i) ==
            LET w == Utf8Width(s[i])
            IN  /\ w > 0
                /\ \A k \in 1..(w - 1) : IsCont(i + k)
                /\ (s[i] = 224 => s[i + 1] >= 160)
                /\ (s[i] = 237 => s[i + 1] <= 159)
                /\ (s[i] = 240 => s[i + 1] >= 144)
                /\ (s[i] = 244 => s[i + 1] <= 143)
        Covered(i) ==
            \E d \in 1..3 :
                /\ i - d >= 1
                /\ Utf8Width(s[i - d]) > d
                /\ s[i - d] >= 194
                /\ \A m \in (i - d + 1)..(i - 1) : IsCont(m)
    IN  \A i \in 1..n : IF IsCont(i) THEN Covered(i) ELSE LeadOk(i)

\* str::replace of one character by another
Replace(s, from, to) == [i \in 1..Len(s) |-> IF s[i] = from THEN to ELSE s[i]]

\* replace os specific char for path with \0 character
normalize_nameFirst(name) ==
    LET S == {i \in 1..Len(name) : name[i] = MAIN_SEPARATOR}
    IN  [i \in 1..Len(name) |->
            IF S # {} /\ i = (CHOOSE k \in S : \A j \in S : k <= j) THEN NUL ELSE name[i]]

normalize_name(name) == Replace(name, MAIN_SEPARATOR, NUL)

\* replace \0 with os specific char
denormalize_name(name) == Replace(name, NUL, MAIN_SEPARATOR)

\* ------------------------------------------------------------------------
\* Paths and the file system of one host
\* ------------------------------------------------------------------------

ROOT == << MAIN_SEPARATOR >>

SepIdx(p) == {i \in 1..Len(p) : p[i] = MAIN_SEPARATOR}

MaxOf(S) == CHOOSE i \in S : \A j \in S : j <= i

MinOf(S) == CHOOSE i \in S : \A j \in S : i <= j

\* The operating system reads a run of separators as one separator ...
RECURSIVE Collapse(_)
Collapse(p) ==
    LET D == {i \in SepIdx(p) : i < Len(p) /\ p[i + 1] = MAIN_SEPARATOR}
    IN  IF D = {} THEN p
        ELSE Collapse(SubSeq(p, 1, MinOf(D)) \o SubSeq(p, MinOf(D) + 2, Len(p)))

\* ... and ignores the separator a path ends with (the root excepted).
StripTrail(p) ==
    IF Len(p) > 1 /\ p[Len(p)] = MAIN_SEPARATOR THEN SubSeq(p, 1, Len(p) - 1) ELSE p

\* The file-system entry a path string names (no "." or ".." components occur)
OsPath(p) == StripTrail(Collapse(p))

\* PathBuf::pop: the path without its last component
Parent(p) ==
    LET q == OsPath(p)
        S == SepIdx(q)
    IN  IF q = ROOT \/ S = {} THEN (IF S = {} THEN << >> ELSE ROOT)
        ELSE IF MaxOf(S) = 1 THEN ROOT
        ELSE SubSeq(q, 1, MaxOf(S) - 1)

\* A path and the directories above it
AncestorsOrSelf(p) ==
    LET q == OsPath(p)
    IN  {ROOT, q} \cup {SubSeq(q, 1, i - 1) : i \in SepIdx(q) \ {1}}

\* p is an entry strictly below directory d
IsUnder(p, d) ==
    IF d = ROOT THEN p # ROOT /\ Len(p) > 1 /\ p[1] = MAIN_SEPARATOR
    ELSE /\ Len(p) > Len(d) + 1
         /\ SubSeq(p, 1, Len(d)) = d
         /\ p[Len(d) + 1] = MAIN_SEPARATOR

\* Path::is_dir, for the directories dd of a host
is_dirAny(dd, path) == path # << >>

is_dir(dd, path) == path # << >> /\ OsPath(path) \in dd

\* Path::exists, for the files ff and directories dd of a host
exists(ff, dd, path) ==
    path # << >> /\ (OsPath(path) \in dd \/ OsPath(path) \in DOMAIN ff)

\* fs::create_dir_all succeeds: no component of the path is a regular file
create_dir_all_ok(ff, path) == AncestorsOrSelf(path) \cap DOMAIN ff = {}

\* the directories after fs::create_dir_all
create_dir_all(dd, path) == dd \cup AncestorsOrSelf(path)

\* File::create succeeds: the parent is a directory and the name is not one
File_create_ok(ff, dd, name) ==
    /\ name # << >>
    /\ name[Len(name)] # MAIN_SEPARATOR
    /\ OsPath(name) \notin dd
    /\ Parent(name) \in dd

\* the files after File::create: a new, or truncated, empty file
File_create(ff, name) ==
    [q \in DOMAIN ff \cup {OsPath(name)} |->
        IF q = OsPath(name) THEN << >> ELSE ff[q]]

\* the content after File::write of chunk at offset off: a hole is zero-filled
\* (the host has room for the chunk: the write takes all of it)
WriteAtStart(old, off, chunk) ==
    [i \in 1..(IF Len(old) > Len(chunk) THEN Len(old) ELSE Len(chunk)) |->
        IF i <= Len(chunk) THEN chunk[i] ELSE old[i]]

WriteAt(old, off, chunk) ==
    LET n == IF Len(old) > off + Len(chunk) THEN Len(old) ELSE off + Len(chunk)
    IN  [i \in 1..n |->
            IF i > off /\ i <= off + Len(chunk) THEN chunk[i - off]
            ELSE IF i <= Len(old) THEN old[i]
            ELSE 0]

\* no symbolic links
NoLinks == [q \in {} |-> << >>]

\* What File::open and Path::is_file see on a host with the regular files ff
\* and the symbolic links ll (path -> target): both follow a symbolic link, so
\* a link whose target is a regular file opens as that file.
Opened(ff, ll) ==
    [q \in DOMAIN ff \cup {l \in DOMAIN ll : ll[l] \in DOMAIN ff} |->
        IF q \in DOMAIN ff THEN ff[q] ELSE ff[ll[q]]]

\* the file a path names once a symbolic link at its end is followed
Target(ll, path) ==
    IF OsPath(path) \in DOMAIN ll THEN ll[OsPath(path)] ELSE OsPath(path)

\* The entries WalkDir::new(dir) yields that pass entry.path().is_file(), for
\* the paths ff that open as a regular file.  WalkDir does not follow links
\* (follow_links is off), so it yields a symbolic link as an entry of its own;
\* the directories it also yields fail is_file.
WalkDir(ff, dir) == {p \in DOMAIN ff : IsUnder(p, dir)}

\* ------------------------------------------------------------------------
\* Processes, connections and endpoints
\* ------------------------------------------------------------------------

Connectors == {"C1", "C2"}

Procs == {"L"} \cup Connectors

ListenerEnds == {"L1", "L2"}

Endpoints == ListenerEnds \cup Connectors

\* the process an endpoint's session runs in
Proc(e) == IF e \in ListenerEnds THEN "L" ELSE e

\* the other end of an endpoint's socket
Peer(e) ==
    CASE e = "L1" -> "C1"
      [] e = "L2" -> "C2"
      [] e = "C1" -> "L1"
      [] e = "C2" -> "L2"

\* the most terminations of a connector by its user in one run
MaxFaults == 1

VARIABLES
    args,           \* per process: struct Args (ip_host, reverse, directory)
    links,          \* per process: symbolic links of its host, path -> target
    names,          \* a path handed to normalize_name and what became of it
    kind,           \* per connector: "prog" (this program), "raw" (some other
                    \* TCP client) or "off" (not started in this run)
    raw,            \* per connector: the bytes a "raw" client sends
    ppc,            \* per process: where it is in main / server / client
    server_mode,    \* per process: main's server_mode
    sending_mode,   \* per process: main's sending_mode
    dir,            \* per process: the String validate_path returned
    files,          \* per process: regular files of its host, path -> content
    dirs,           \* per process: directories of its host
    conn,           \* per connector: its connection, as the listener sees it
    sess,           \* per endpoint: the locals of its directory_send/_receive
    out,            \* per endpoint: every byte written on its socket so far
    rpos,           \* per endpoint: how many bytes it has read off its socket
    open,           \* per endpoint: its socket is open at this end
    faults          \* terminations by the user so far

vars == << args, links, names, kind, raw, ppc, server_mode, sending_mode, dir, files, dirs,
           conn, sess, out, rpos, open, faults >>

\* what no step of a transfer changes
config == << args, links, names, kind, raw >>

Dead == {"exit_ok", "exit_err", "killed"}

Alive(p) == ppc[p] \notin Dead

\* ------------------------------------------------------------------------
\* The hosts a run starts from
\* ------------------------------------------------------------------------

\* a relative path of n bytes: "/aaa.../aaa...", a separator every 200 bytes
LongRel(n) == [i \in 1..n |-> IF i % 200 = 1 THEN MAIN_SEPARATOR ELSE 97]

\* the directories that hold the files ff and the directory d
DirsOf(ff, d) ==
    AncestorsOrSelf(d) \cup UNION {AncestorsOrSelf(Parent(q)) : q \in DOMAIN ff}

NoFiles == [q \in {} |-> << >>]

\* "/d", empty
WorldEmpty == [directory |-> << 47, 100 >>, files |-> NoFiles]

\* "/r/" holding a (1 byte) and s/b (1025 bytes); "/rz" lies beside it
WorldTree ==
    [directory |-> << 47, 114, 47 >>,
     files |-> (<< 47, 114, 47, 97 >> :> Content(1, 1))
            @@ (<< 47, 114, 47, 115, 47, 98 >> :> Content(2, BUFFER_SIZE + 1))
            @@ (<< 47, 114, 122 >> :> Content(3, 1))]

\* the file-system root "/" holding a (2 bytes)
WorldRoot == [directory |-> ROOT, files |-> (<< 47, 97 >> :> Content(4, 2))]

\* "/r" holding one file whose relative path is 4095 bytes long (1024 bytes)
WorldEdge ==
    [directory |-> << 47, 114 >>,
     files |-> ((<< 47, 114 >> \o LongRel(STRING_LIMIT - 1)) :> Content(5, BUFFER_SIZE))]

\* "/r" holding one empty file whose relative path is 4096 bytes long
WorldLong ==
    [directory |-> << 47, 114 >>,
     files |-> ((<< 47, 114 >> \o LongRel(STRING_LIMIT)) :> << >>)]

\* "/d" holding a (1025 bytes), one world per seed
WorldOne(seed) ==
    [directory |-> << 47, 100 >>,
     files |-> (<< 47, 100, 47, 97 >> :> Content(seed, BUFFER_SIZE + 1))]

\* "/d" holding b (1025 bytes)
WorldTwo ==
    [directory |-> << 47, 100 >>,
     files |-> (<< 47, 100, 47, 98 >> :> Content(7, BUFFER_SIZE + 1))]

\* "/k" holding z (0 bytes) and m (2048 bytes)
WorldSizes ==
    [directory |-> << 47, 107 >>,
     files |-> (<< 47, 107, 47, 122 >> :> << >>)
            @@ (<< 47, 107, 47, 109 >> :> Content(6, 2 * BUFFER_SIZE))]

Worlds == {WorldEmpty, WorldTree, WorldRoot, WorldEdge, WorldLong, WorldSizes}

\* the host of a world: its directory exists, it has no symbolic links
Host(w) ==
    [directory |-> w.directory, files |-> w.files,
     dirs |-> DirsOf(w.files, w.directory), links |-> NoLinks]

\* "/w" holding l, a symbolic link to the regular file "/wz" (1 byte) beside
\* "/w", and x, a symbolic link to nothing
HostLink ==
    [directory |-> << 47, 119 >>,
     files |-> (<< 47, 119, 122 >> :> Content(8, 1)),
     dirs |-> {ROOT, << 47, 119 >>},
     links |-> (<< 47, 119, 47, 108 >> :> << 47, 119, 122 >>)
            @@ (<< 47, 119, 47, 120 >> :> << 47, 110 >>)]

\* "/nx", which does not exist
HostMissing ==
    [directory |-> << 47, 110, 120 >>, files |-> NoFiles, dirs |-> {ROOT},
     links |-> NoLinks]

\* "/f", which is a regular file
HostNotDir ==
    [directory |-> << 47, 102 >>, files |-> (<< 47, 102 >> :> Content(9, 1)),
     dirs |-> {ROOT}, links |-> NoLinks]

Hosts == {Host(w) : w \in Worlds} \cup {HostLink, HostMissing, HostNotDir}

\* no path is being normalized
NamesIdle == [pc |-> "idle", path |-> << >>, wire |-> << >>, back |-> << >>]

\* what a client that is not this program may send
RawStreams ==
    { to_be_bytes(0) \o << 1, 2, 3 >>,
      to_be_bytes(STRING_LIMIT) \o << 97, 98 >>,
      to_be_bytes(2) \o << 0, 97 >> \o to_be_bytes(3) \o << 1, 2 >>,
      to_be_bytes(2) \o << 0, 255 >> \o to_be_bytes(0),
      to_be_bytes(1) \o << 97 >> \o to_be_bytes(0) \o to_be_bytes(0) \o << 9 >>,
      << 0, 0, 0 >> }

\* a client that sends three bytes and then nothing
RawSilent == << 0, 0, 0 >>

\* the locals of a session; size is the length declared for the file at hand
\* and turns counts the turns of its content loop that moved content
NoSession ==
    [pc |-> "none", len |-> 0, need |-> 0, file |-> << >>, off |-> 0,
     sent |-> << >>, err |-> "", size |-> 0, turns |-> 0]

\* what does not depend on the scenario
InitCommon ==
    /\ ppc = [p \in Procs |->
                IF p = "L" \/ kind[p] = "prog" THEN "main"
                ELSE IF kind[p] = "raw" THEN "connect" ELSE "off"]
    /\ server_mode = [p \in Procs |-> FALSE]
    /\ sending_mode = [p \in Procs |-> FALSE]
    /\ dir = [p \in Procs |-> << >>]
    /\ conn = [c \in Connectors |-> "none"]
    /\ sess = [e \in Endpoints |-> NoSession]
    /\ out = [e \in Endpoints |-> << >>]
    /\ rpos = [e \in Endpoints |-> 0]
    /\ open = [e \in Endpoints |-> TRUE]
    /\ faults = 0

MkArgs(host, rev, w) ==
    [ip_host |-> host, reverse |-> rev, directory |-> w.directory]

\* one listener and one connector, on any two hosts
Init ==
    /\ \E k \in {"prog", "raw"} : kind = [c \in Connectors |-> IF c = "C1" THEN k ELSE "off"]
    /\ \E s \in RawStreams :
          raw = [c \in Connectors |-> IF kind[c] = "raw" THEN s ELSE << >>]
    /\ \E wl \in Hosts, wc \in Hosts, rl \in BOOLEAN, rc \in BOOLEAN :
          /\ kind["C1"] = "raw" => (wc = Host(WorldEmpty) /\ rc = FALSE)
          /\ args = [p \in Procs |->
                       IF p = "L" THEN MkArgs(<< >>, rl, wl)
                       ELSE MkArgs(<< 104 >>, rc, IF p = "C1" THEN wc ELSE WorldEmpty)]
          /\ files = [p \in Procs |->
                       IF p = "L" THEN wl.files
                       ELSE IF p = "C1" THEN wc.files ELSE NoFiles]
          /\ dirs = [p \in Procs |->
                       IF p = "L" THEN wl.dirs
                       ELSE IF p = "C1" THEN wc.dirs ELSE {ROOT}]
          /\ links = [p \in Procs |->
                       IF p = "L" THEN wl.links
                       ELSE IF p = "C1" THEN wc.links ELSE NoLinks]
    /\ names = NamesIdle
    /\ InitCommon

\* one listener and two connectors started with the same -r; the first
\* connector may be a client that is not this program
InitMulti ==
    /\ \E k \in {"prog", "raw"} : kind = [c \in Connectors |-> IF c = "C1" THEN k ELSE "prog"]
    /\ raw = [c \in Connectors |-> IF kind[c] = "raw" THEN RawSilent ELSE << >>]
    /\ \E w2 \in {WorldOne(3), WorldTwo}, r \in BOOLEAN :
          LET w == [p \in Procs |->
                      IF p = "L" THEN WorldOne(1)
                      ELSE IF p = "C1" THEN WorldOne(2) ELSE w2]
          IN  /\ args = [p \in Procs |->
                          MkArgs(IF p = "L" THEN << >> ELSE << 104 >>, r, w[p])]
              /\ files = [p \in Procs |-> w[p].files]
              /\ dirs = [p \in Procs |-> DirsOf(w[p].files, w[p].directory)]
    /\ links = [p \in Procs |-> NoLinks]
    /\ names = NamesIdle
    /\ InitCommon

\* ------------------------------------------------------------------------
\* main, server, client, connection_handler
\* ------------------------------------------------------------------------

\* let sending_mode = !(server_mode ^ args.reverse)
ResolveSendingXor(server, reverse) == server # reverse

ResolveSending(server, reverse) == ~(server # reverse)

\* fs::canonicalize of an existing directory given without "." and ".."
canonicalize(path) == OsPath(path)

\* the locals of a session that has just been given its stream
NewSession(sending) ==
    [NoSession EXCEPT !.pc = IF sending THEN "walk" ELSE "r_namelen"]

\* main up to the first await of server or client: the mode is resolved and
\* validate_path checks the directory; "Not a directory" ends the run
main_start ==
    \E p \in Procs :
        /\ ppc[p] = "main"
        /\ LET server == (args[p].ip_host = << >>)
               sending == ResolveSending(server, args[p].reverse)
               valid == is_dir(dirs[p], args[p].directory)
           IN  /\ server_mode' = [server_mode EXCEPT ![p] = server]
               /\ sending_mode' = [sending_mode EXCEPT ![p] = sending]
               /\ dir' = [dir EXCEPT ![p] =
                            IF valid THEN canonicalize(args[p].directory) ELSE << >>]
               /\ ppc' = [ppc EXCEPT ![p] =
                            IF ~valid THEN "exit_err"
                            ELSE IF server THEN "bind" ELSE "connect"]
        /\ UNCHANGED << config, files, dirs, conn, sess, out, rpos, open, faults >>

\* server: create_listener binds the port
create_listener ==
    /\ ppc["L"] = "bind"
    /\ ppc' = [ppc EXCEPT !["L"] = "accept"]
    /\ UNCHANGED << config, server_mode, sending_mode, dir, files, dirs, conn,
                    sess, out, rpos, open, faults >>

\* client: TcpStream::connect, refused unless the listener is listening; the
\* session then starts on the new stream.  A client that is not this program
\* sends its bytes as soon as it is connected.
client_connect ==
    \E c \in Connectors :
        /\ ppc[c] = "connect"
        /\ IF ppc["L"] = "accept"
           THEN /\ conn' = [conn EXCEPT ![c] = "pending"]
                /\ ppc' = [ppc EXCEPT ![c] = "session"]
                /\ sess' = [sess EXCEPT ![c] =
                              IF kind[c] = "raw" THEN [NoSession EXCEPT !.pc = "raw"]
                              ELSE NewSession(sending_mode[c])]
                /\ out' = [out EXCEPT ![c] = raw[c]]
           ELSE /\ ppc' = [ppc EXCEPT ![c] = "exit_err"]
                /\ UNCHANGED << conn, sess, out >>
        /\ UNCHANGED << config, server_mode, sending_mode, dir, files, dirs,
                        rpos, open, faults >>

\* server: the accept loop takes one waiting connection and spawns its
\* connection_handler; it does not look at the sessions already running
AcceptReadyIdle(c) ==
    /\ ppc["L"] = "accept" /\ conn[c] = "pending"
    /\ \A e \in ListenerEnds : sess[e].pc \in {"none", "ok", "err"}

AcceptReady(c) == ppc["L"] = "accept" /\ conn[c] = "pending"

listener_accept_connection ==
    \E c \in Connectors :
        /\ AcceptReady(c)
        /\ conn' = [conn EXCEPT ![c] = "accepted"]
        /\ sess' = [sess EXCEPT ![Peer(c)] = NewSession(sending_mode["L"])]
        /\ UNCHANGED << config, ppc, server_mode, sending_mode, dir, files, dirs,
                        out, rpos, open, faults >>

\* the process after a session of endpoint e returned result ("ok" or "err"):
\* client returns it to main, which returns or calls exit(-1); the listener's
\* connection_handler goes on to look at the result
AfterSession(e, result) ==
    IF e \in Connectors
    THEN [ppc EXCEPT ![e] = IF result = "ok" THEN "exit_ok" ELSE "exit_err"]
    ELSE ppc

\* a session ends with locals s2 (s2.pc is "ok" or "err"): its stream is dropped
EndSession(e, s2) ==
    /\ sess' = [sess EXCEPT ![e] = s2]
    /\ open' = [open EXCEPT ![e] = FALSE]
    /\ ppc' = AfterSession(e, s2.pc)

\* the locals of a session whose step returned Err(msg), passed on by "?"
FailedSwallowed(s, msg) == [s EXCEPT !.pc = "ok", !.err = msg]

Failed(s, msg) == [s EXCEPT !.pc = "err", !.err = msg]

\* the listener's sockets after connection_handler found Err and called
\* std::process::exit(-1): the process is gone, every socket of it is closed
ExitOpen == [e \in Endpoints |-> IF e \in ListenerEnds THEN FALSE ELSE open[e]]

\* an isolated failure: only the failed session's handler ends
ExitPpcIsolated == ppc

ExitPpc == [ppc EXCEPT !["L"] = "exit_err"]

connection_handler_exit ==
    \E e \in ListenerEnds :
        /\ Alive("L")
        /\ sess[e].pc = "err"
        /\ ppc' = ExitPpc
        /\ open' = ExitOpen
        /\ UNCHANGED << config, server_mode, sending_mode, dir, files, dirs, conn,
                        sess, out, rpos, faults >>

\* the user ends a running connector (or the other client closes its socket)
Kill ==
    \E c \in Connectors :
        /\ ppc[c] = "session"
        /\ faults < MaxFaults
        /\ faults' = faults + 1
        /\ ppc' = [ppc EXCEPT ![c] = "killed"]
        /\ open' = [open EXCEPT ![c] = FALSE]
        /\ UNCHANGED << config, server_mode, sending_mode, dir, files, dirs, conn,
                        sess, out, rpos >>

\* ------------------------------------------------------------------------
\* The socket of an endpoint
\* ------------------------------------------------------------------------

\* a session of endpoint e is at pcv and its process runs
At(e, pcv) == Alive(Proc(e)) /\ sess[e].pc = pcv

\* bytes that have arrived and are not read yet
Avail(e) == Len(out[Peer(e)]) - rpos[e]

\* read_exact of n bytes returns them
CanRead(e, n) == Avail(e) >= n

\* read_exact of n bytes fails: the peer closed and fewer bytes are left
ReadEof(e, n) == Avail(e) < n /\ ~open[Peer(e)]

\* the next n bytes
Data(e, n) == SubSeq(out[Peer(e)], rpos[e] + 1, rpos[e] + n)

\* the read position after read_exact of n bytes, successful or not
AfterRead(e, n) ==
    [rpos EXCEPT ![e] = IF CanRead(e, n) THEN rpos[e] + n ELSE Len(out[Peer(e)])]

\* write_all succeeds (TRUE) or fails (FALSE); it can fail once the peer closed
WriteOutcomes(e) == IF open[Peer(e)] THEN {TRUE} ELSE {TRUE, FALSE}

\* ------------------------------------------------------------------------
\* directory_send and write_file
\* ------------------------------------------------------------------------

Range(q) == {q[i] : i \in DOMAIN q}

\* let relative_file_name = &full_file_name[prefix_len..]
relative_file_name(full_file_name, prefix) == Drop(full_file_name, Len(prefix))

\* the name write_file puts on the wire for the file the session is sending
WireName(e) == normalize_name(relative_file_name(sess[e].file, dir[Proc(e)]))

\* the bytes of write_u64(len) in write_string
StringPrefix(name) == to_be_bytes(Len(name))

\* the bytes of write_u64(len) in write_file
SizeFrameNone(len) == << >>

SizeFrame(len) == to_be_bytes(len)

\* reader.read(&mut buffer): how many bytes a read at offset off returns
read_bytes(content, off) ==
    IF off >= Len(content) THEN 0 ELSE Min(BUFFER_SIZE, Len(content) - off)

\* len -= read_bytes on a u64 (a release build wraps)
SubU64(len, n) == IF n > len THEN U64_CAP ELSE len - n

\* what "len -= read_bytes" does: it subtracts; where read_bytes is the larger
\* number a build with overflow checks panics and a build without them wraps
SubOutcomes(len, n) == IF n > len THEN {"wrap", "panic"} ELSE {"sub"}

\* write_buffer: "if data_len > 0", else "writing zero buffer is not allowed"
write_buffer_okAny(data_len) == TRUE

write_buffer_ok(data_len) == data_len > 0

\* the paths of endpoint e's host that open as a regular file, with content
Source(e) == Opened(files[Proc(e)], links[Proc(e)])

\* the files the walk has not yielded yet
Unsent(e) == WalkDir(Source(e), dir[Proc(e)]) \ Range(sess[e].sent)

\* directory_send takes the walk's next regular file; write_file opens it,
\* takes its length, and write_string sends the length of its name
write_file_open ==
    \E e \in Endpoints : \E f \in Unsent(e) : \E ok \in WriteOutcomes(e) :
        /\ At(e, "walk")
        /\ relative_file_name(f, dir[Proc(e)]) # << >>
        /\ LET name == normalize_name(relative_file_name(f, dir[Proc(e)]))
               s1 == [sess[e] EXCEPT !.file = f, !.len = Len(Source(e)[f]),
                                     !.size = Len(Source(e)[f]), !.turns = 0,
                                     !.off = 0, !.sent = Append(@, f)]
           IN  IF ok
               THEN /\ out' = [out EXCEPT ![e] = @ \o StringPrefix(name)]
                    /\ sess' = [sess EXCEPT ![e] = [s1 EXCEPT !.pc = "w_name"]]
                    /\ UNCHANGED << ppc, open >>
               ELSE /\ EndSession(e, Failed(s1, "write failed"))
                    /\ UNCHANGED out
        /\ UNCHANGED << config, server_mode, sending_mode, dir, files, dirs, conn,
                        rpos, faults >>

\* write_string: stream.write_all(data)
write_string_data ==
    \E e \in Endpoints : \E ok \in WriteOutcomes(e) :
        /\ At(e, "w_name")
        /\ IF ok
           THEN /\ out' = [out EXCEPT ![e] = @ \o WireName(e)]
                /\ sess' = [sess EXCEPT ![e].pc = "w_size"]
                /\ UNCHANGED << ppc, open >>
           ELSE /\ EndSession(e, Failed(sess[e], "write failed"))
                /\ UNCHANGED out
        /\ UNCHANGED << config, server_mode, sending_mode, dir, files, dirs, conn,
                        rpos, faults >>

\* write_file: write_u64(stream, len), then the head of "while len > 0"
write_file_len ==
    \E e \in Endpoints : \E ok \in WriteOutcomes(e) :
        /\ At(e, "w_size")
        /\ IF ok
           THEN /\ out' = [out EXCEPT ![e] = @ \o SizeFrame(sess[e].len)]
                /\ sess' = [sess EXCEPT ![e].pc =
                              IF sess[e].len > 0 THEN "w_chunk" ELSE "walk"]
                /\ UNCHANGED << ppc, open >>
           ELSE /\ EndSession(e, Failed(sess[e], "write failed"))
                /\ UNCHANGED out
        /\ UNCHANGED << config, server_mode, sending_mode, dir, files, dirs, conn,
                        rpos, faults >>

\* write_file: one turn of the loop: reader.read, write_buffer, len -= read_bytes.
\* A panic in "len -= read_bytes" ends the session's task without a Result:
\* main of a connector ends with a nonzero status, a connection_handler of the
\* listener just ends.
write_file_chunk ==
    \E e \in Endpoints : \E ok \in WriteOutcomes(e) :
        /\ At(e, "w_chunk")
        /\ LET content == Source(e)[sess[e].file]
               n == read_bytes(content, sess[e].off)
               left == SubU64(sess[e].len, n)
               s1 == [sess[e] EXCEPT !.turns = @ + 1]
           IN  IF ~write_buffer_ok(n)
               THEN /\ EndSession(e, Failed(sess[e], "writing zero buffer is not allowed"))
                    /\ UNCHANGED out
               ELSE IF ok
               THEN /\ out' = [out EXCEPT ![e] =
                                 @ \o SubSeq(content, sess[e].off + 1, sess[e].off + n)]
                    /\ \E o \in SubOutcomes(sess[e].len, n) :
                          IF o = "panic"
                          THEN EndSession(e, [s1 EXCEPT !.off = @ + n, !.pc = "panic"])
                          ELSE /\ sess' = [sess EXCEPT ![e] =
                                    [s1 EXCEPT !.off = @ + n, !.len = left,
                                               !.pc = IF left > 0 THEN "w_chunk" ELSE "walk"]]
                               /\ UNCHANGED << ppc, open >>
               ELSE /\ EndSession(e, Failed(sess[e], "write failed"))
                    /\ UNCHANGED out
        /\ UNCHANGED << config, server_mode, sending_mode, dir, files, dirs, conn,
                        rpos, faults >>

\* send 0 to indicate end of transfer
EndOfTransferNone == << >>

EndOfTransfer == to_be_bytes(0)

\* directory_send after the walk: write_u64(&mut stream, 0), Ok(())
directory_send_end ==
    \E e \in Endpoints : \E ok \in WriteOutcomes(e) :
        /\ At(e, "walk")
        /\ Unsent(e) = {}
        /\ IF ok
           THEN /\ out' = [out EXCEPT ![e] = @ \o EndOfTransfer]
                /\ EndSession(e, [sess[e] EXCEPT !.pc = "ok"])
           ELSE /\ EndSession(e, Failed(sess[e], "write failed"))
                /\ UNCHANGED out
        /\ UNCHANGED << config, server_mode, sending_mode, dir, files, dirs, conn,
                        rpos, faults >>

\* The file a sender has opened, and taken the length of, changes on disk
\* before the sender's first read of it: it grows by a buffer's length or shrinks
\* to half.  (The BufReader takes a file this small in whole with its first
\* read, so a later change does not reach the loop.)
file_changes ==
    \E e \in Endpoints : \E grow \in BOOLEAN :
        /\ At(e, "w_name") \/ At(e, "w_size")
        /\ faults < MaxFaults
        /\ faults' = faults + 1
        /\ LET p == Proc(e)
               f == sess[e].file
               key == IF f \in DOMAIN files[p] THEN f ELSE links[p][f]
               old == files[p][key]
           IN  /\ grow \/ old # << >>
               /\ files' = [files EXCEPT ![p][key] =
                              IF grow THEN old \o Content(9, BUFFER_SIZE)
                              ELSE SubSeq(old, 1, Len(old) \div 2)]
        /\ UNCHANGED << config, ppc, server_mode, sending_mode, dir, dirs, conn,
                        sess, out, rpos, open >>

\* ------------------------------------------------------------------------
\* directory_receive, save_file and read_string
\* ------------------------------------------------------------------------

\* read_string's branch on the length it read: "empty", "read" or "too_long"
StringCaseNoLimit(str_len) == IF str_len = 0 THEN "empty" ELSE "read"

StringCase(str_len) ==
    IF str_len = 0 THEN "empty"
    ELSE IF str_len < STRING_LIMIT THEN "read"
    ELSE "too_long"

\* let mut full_name = dir.to_owned(); full_name.push_str(&name)
full_name(d, file_name) == d \o denormalize_name(file_name)

\* how many bytes the next turn of save_file's loop asks for
ChunkLenMod(len) == IF len > BUFFER_SIZE THEN BUFFER_SIZE ELSE len % BUFFER_SIZE

ChunkLen(len) == IF len > BUFFER_SIZE THEN BUFFER_SIZE ELSE len

\* read_chunk: "if chunk_len > 0", else "reading zero buffer is not allowed"
read_chunk_ok(chunk_len) == chunk_len > 0

\* The directories of a host after save_file's read_u64 of the length has
\* returned (got: it returned the length): only then comes the folder check,
\* which creates the missing folders of path.
PathCreatedFirst(dd, ff, path, got) ==
    IF ~exists(ff, dd, path) /\ create_dir_all_ok(ff, path)
    THEN create_dir_all(dd, path) ELSE dd

PathCreated(dd, ff, path, got) ==
    IF got /\ ~exists(ff, dd, path) /\ create_dir_all_ok(ff, path)
    THEN create_dir_all(dd, path) ELSE dd

\* the files of a host after save_file returned Err while it was writing the
\* file key: nothing is undone
AfterErrRemoved(ff, key) == [q \in DOMAIN ff \ {key} |-> ff[q]]

AfterErr(ff, key) == ff

\* read_string: read_u64; 0 is the empty string, on which save_file returns
\* Ok(false) and directory_receive Ok(()); 4096 and more is an error
read_string_len ==
    \E e \in Endpoints :
        /\ At(e, "r_namelen")
        /\ CanRead(e, U64_BYTES) \/ ReadEof(e, U64_BYTES)
        /\ rpos' = AfterRead(e, U64_BYTES)
        /\ IF ~CanRead(e, U64_BYTES)
           THEN EndSession(e, Failed(sess[e], "early eof"))
           ELSE LET str_len == from_be_bytes(Data(e, U64_BYTES))
                    c == StringCase(str_len)
                IN  IF c = "empty"
                    THEN EndSession(e, [sess[e] EXCEPT !.pc = "ok"])
                    ELSE IF c = "read"
                    THEN /\ sess' = [sess EXCEPT ![e] =
                                       [@ EXCEPT !.pc = "r_name", !.need = str_len]]
                         /\ UNCHANGED << ppc, open >>
                    ELSE EndSession(e,
                            Failed(sess[e], "string should not be longer than 4096"))
        /\ UNCHANGED << config, server_mode, sending_mode, dir, files, dirs, conn,
                        out, faults >>

\* read_string: read_chunk of the name and String::from_utf8; save_file then
\* builds full_name
read_string_data ==
    \E e \in Endpoints :
        /\ At(e, "r_name")
        /\ CanRead(e, sess[e].need) \/ ReadEof(e, sess[e].need)
        /\ rpos' = AfterRead(e, sess[e].need)
        /\ IF ~read_chunk_ok(sess[e].need)
           THEN EndSession(e, Failed(sess[e], "reading zero buffer is not allowed"))
           ELSE IF ~CanRead(e, sess[e].need)
           THEN EndSession(e, Failed(sess[e], "early eof"))
           ELSE LET vec == Data(e, sess[e].need)
                IN  IF ~IsUtf8(vec)
                    THEN EndSession(e, Failed(sess[e], "invalid utf-8"))
                    ELSE /\ sess' = [sess EXCEPT ![e] =
                                       [@ EXCEPT !.pc = "r_size",
                                                 !.file = full_name(dir[Proc(e)], vec)]]
                         /\ UNCHANGED << ppc, open >>
        /\ UNCHANGED << config, server_mode, sending_mode, dir, files, dirs, conn,
                        out, faults >>

\* save_file: read_u64 of the length, then the folder check with
\* create_dir_all, File::create, and the head of "while len > 0"
save_file_len ==
    \E e \in Endpoints :
        /\ At(e, "r_size")
        /\ CanRead(e, U64_BYTES) \/ ReadEof(e, U64_BYTES)
        /\ rpos' = AfterRead(e, U64_BYTES)
        /\ LET p == Proc(e)
               name == sess[e].file
               path == Parent(name)
               mk == ~exists(files[p], dirs[p], path)
               dd == PathCreated(dirs[p], files[p], path, TRUE)
               len == from_be_bytes(Data(e, U64_BYTES))
           IN  IF ~CanRead(e, U64_BYTES)
               THEN /\ EndSession(e, Failed(sess[e], "early eof"))
                    /\ dirs' = [dirs EXCEPT ![p] = PathCreated(@, files[p], path, FALSE)]
                    /\ UNCHANGED files
               ELSE IF mk /\ ~create_dir_all_ok(files[p], path)
               THEN /\ EndSession(e, Failed(sess[e], "create_dir_all failed"))
                    /\ UNCHANGED << files, dirs >>
               ELSE IF ~File_create_ok(files[p], dd, name)
                       \/ ~File_create_ok(files[p], dd, Target(links[p], name))
               THEN /\ EndSession(e, Failed(sess[e], "File::create failed"))
                    /\ dirs' = [dirs EXCEPT ![p] = dd]
                    /\ UNCHANGED files
               ELSE /\ dirs' = [dirs EXCEPT ![p] = dd]
                    /\ files' = [files EXCEPT ![p] =
                                   File_create(@, Target(links[p], name))]
                    /\ sess' = [sess EXCEPT ![e] =
                                  [@ EXCEPT !.len = len, !.off = 0,
                                            !.size = len, !.turns = 0,
                                            !.sent = Append(@, Target(links[p], name)),
                                            !.pc = IF len > 0 THEN "r_chunk"
                                                   ELSE "r_namelen"]]
                    /\ UNCHANGED << ppc, open >>
        /\ UNCHANGED << config, server_mode, sending_mode, dir, conn, out, faults >>

\* save_file: one turn of the loop: read_exact or read_chunk, file.write
save_file_chunk ==
    \E e \in Endpoints :
        /\ At(e, "r_chunk")
        /\ LET p == Proc(e)
               n == ChunkLen(sess[e].len)
               key == Target(links[p], sess[e].file)
           IN  /\ CanRead(e, n) \/ ReadEof(e, n)
               /\ rpos' = AfterRead(e, n)
               /\ IF sess[e].len <= BUFFER_SIZE /\ ~read_chunk_ok(n)
                  THEN /\ EndSession(e, Failed(sess[e], "reading zero buffer is not allowed"))
                       /\ files' = [files EXCEPT ![p] = AfterErr(@, key)]
                  ELSE IF ~CanRead(e, n)
                  THEN /\ EndSession(e, Failed(sess[e], "early eof"))
                       /\ files' = [files EXCEPT ![p] = AfterErr(@, key)]
                  ELSE /\ files' = [files EXCEPT ![p][key] =
                                      WriteAt(@, sess[e].off, Data(e, n))]
                       /\ sess' = [sess EXCEPT ![e] =
                                     [@ EXCEPT !.off = @ + n, !.len = @ - n,
                                               !.turns = @ + 1,
                                               !.pc = IF sess[e].len - n > 0
                                                      THEN "r_chunk" ELSE "r_namelen"]]
                       /\ UNCHANGED << ppc, open >>
        /\ UNCHANGED << config, server_mode, sending_mode, dir, dirs, conn, out,
                        faults >>

\* ------------------------------------------------------------------------
\* The specifications
\* ------------------------------------------------------------------------

Next ==
    \/ main_start
    \/ create_listener
    \/ client_connect
    \/ listener_accept_connection
    \/ connection_handler_exit
    \/ Kill
    \/ write_file_open
    \/ write_string_data
    \/ write_file_len
    \/ write_file_chunk
    \/ directory_send_end
    \/ read_string_len
    \/ read_string_data
    \/ save_file_len
    \/ save_file_chunk

Spec == Init /\ [][Next]_vars

SpecMulti == InitMulti /\ [][Next]_vars

\* ------------------------------------------------------------------------
\* normalize_name and denormalize_name on their own
\* ------------------------------------------------------------------------

\* the longest path tried
MaxPath == 4

\* the bytes of the paths tried: the separator, "a", "." and "\"; a path of a
\* host holds no NUL
PathBytes == {MAIN_SEPARATOR, 97, 46, 92}

Paths == UNION {[1..n -> PathBytes] : n \in 1..MaxPath}

InitNames ==
    /\ \E p \in Paths : names = [NamesIdle EXCEPT !.pc = "path", !.path = p]
    /\ kind = [c \in Connectors |-> "off"]
    /\ raw = [c \in Connectors |-> << >>]
    /\ args = [p \in Procs |-> MkArgs(<< >>, FALSE, WorldEmpty)]
    /\ files = [p \in Procs |-> NoFiles]
    /\ dirs = [p \in Procs |-> {ROOT}]
    /\ links = [p \in Procs |-> NoLinks]
    /\ InitCommon

\* write_file: let normalized_name = normalize_name(remote_name.to_string())
name_normalized ==
    /\ names.pc = "path"
    /\ names' = [names EXCEPT !.pc = "wire", !.wire = normalize_name(names.path)]
    /\ UNCHANGED << args, links, kind, raw, ppc, server_mode, sending_mode, dir,
                    files, dirs, conn, sess, out, rpos, open, faults >>

\* save_file: let name = denormalize_name(file_name)
name_denormalized ==
    /\ names.pc = "wire"
    /\ names' = [names EXCEPT !.pc = "back", !.back = denormalize_name(names.wire)]
    /\ UNCHANGED << args, links, kind, raw, ppc, server_mode, sending_mode, dir,
                    files, dirs, conn, sess, out, rpos, open, faults >>

NextNames == name_normalized \/ name_denormalized

SpecNames == InitNames /\ [][NextNames]_vars

\* the same, with source files that change while they are being sent
NextMutate == Next \/ file_changes

\* one listener and one connector of this program, each on the host of "/r/"
\* (a of 1 byte, s/b of 1025 bytes) or of the empty "/d"
InitMutate ==
    /\ kind = [c \in Connectors |-> IF c = "C1" THEN "prog" ELSE "off"]
    /\ raw = [c \in Connectors |-> << >>]
    /\ \E wl \in {WorldEmpty, WorldTree}, wc \in {WorldEmpty, WorldTree},
          rl \in BOOLEAN, rc \in BOOLEAN :
          LET w == [p \in Procs |->
                      IF p = "L" THEN wl ELSE IF p = "C1" THEN wc ELSE WorldEmpty]
          IN  /\ args = [p \in Procs |->
                          MkArgs(IF p = "L" THEN << >> ELSE << 104 >>,
                                 IF p = "L" THEN rl ELSE rc, w[p])]
              /\ files = [p \in Procs |-> IF p = "C2" THEN NoFiles ELSE w[p].files]
              /\ dirs = [p \in Procs |->
                          IF p = "C2" THEN {ROOT} ELSE DirsOf(w[p].files, w[p].directory)]
    /\ links = [p \in Procs |-> NoLinks]
    /\ names = NamesIdle
    /\ InitCommon

SpecMutate == InitMutate /\ [][NextMutate]_vars

\* a running send session is not kept from the next turn of its content
\* loop: the read of a local file returns, and so does the write in this model
FairMutate ==
    SpecMutate /\ \A e \in Endpoints : WF_vars(write_file_chunk /\ sess'[e] # sess[e])

\* the runtime runs the accept loop and every spawned connection_handler
Fairness ==
    /\ WF_vars(listener_accept_connection)
    /\ WF_vars(connection_handler_exit)

FairMulti == SpecMulti /\ Fairness

\* ------------------------------------------------------------------------
\* The wire format, read off a byte stream from its first byte
\* ------------------------------------------------------------------------

\* endpoint e runs directory_send / directory_receive of this program
IsSender(e) == sess[e].pc \notin {"none", "raw"} /\ sending_mode[Proc(e)]

IsReceiver(e) == sess[e].pc \notin {"none", "raw"} /\ ~sending_mode[Proc(e)]

Ended(e) == sess[e].pc \in {"ok", "err"}

\* The name frames of stream st from offset o on: [at |-> where the 8 length
\* bytes start, len |-> the length they give].  After a name of 1..4095 bytes
\* come the u64 size and size bytes of content, and then the next name frame.
RECURSIVE NameFrames(_, _)
NameFrames(st, o) ==
    IF Len(st) < o + U64_BYTES THEN {}
    ELSE LET L == from_be_bytes(SubSeq(st, o + 1, o + U64_BYTES))
             fr == [at |-> o, len |-> L]
             body == o + U64_BYTES + L
         IN  IF L = 0 \/ L >= STRING_LIMIT \/ Len(st) < body + U64_BYTES
             THEN {fr}
             ELSE LET size == from_be_bytes(SubSeq(st, body + 1, body + U64_BYTES))
                  IN  IF size > Len(st) - (body + U64_BYTES)
                      THEN {fr}
                      ELSE {fr} \cup NameFrames(st, body + U64_BYTES + size)

\* The complete file records of stream st from offset o on, each as
\* [name |-> the name's bytes, content |-> the content bytes, end |-> the
\* offset of its last byte, where the next name frame starts]
RECURSIVE Records(_, _)
Records(st, o) ==
    IF Len(st) < o + U64_BYTES THEN {}
    ELSE LET L == from_be_bytes(SubSeq(st, o + 1, o + U64_BYTES))
             body == o + U64_BYTES + L
         IN  IF L = 0 \/ L >= STRING_LIMIT \/ Len(st) < body + U64_BYTES
             THEN {}
             ELSE LET size == from_be_bytes(SubSeq(st, body + 1, body + U64_BYTES))
                      end == body + U64_BYTES + size
                  IN  IF size > Len(st) - (body + U64_BYTES)
                      THEN {}
                      ELSE {[name |-> SubSeq(st, o + U64_BYTES + 1, body),
                             content |-> SubSeq(st, body + U64_BYTES + 1, end),
                             end |-> end]}
                              \cup Records(st, end)

\* what a sender that has taken the files q, in this order, writes for them
RECURSIVE Encode(_, _, _)
Encode(ff, d, q) ==
    IF q = << >> THEN << >>
    ELSE LET name == normalize_name(Drop(Head(q), Len(d)))
         IN  to_be_bytes(Len(name)) \o name \o to_be_bytes(Len(ff[Head(q)]))
                \o ff[Head(q)] \o Encode(ff, d, Tail(q))

\* the files below directory d, each as (path relative to d, content)
RelFiles(ff, d) ==
    {<< Drop(q, IF d = ROOT THEN 1 ELSE Len(d) + 1), ff[q] >> :
        q \in {x \in DOMAIN ff : IsUnder(x, d)}}

\* ------------------------------------------------------------------------
\* Claims
\* ------------------------------------------------------------------------

\* C1: one sender session connected to one receiver session whose directory
\* is empty, nobody ending either process: both sessions end with success and
\* the receiver's directory then holds the sender's relative paths with the
\* same content.
C1_RoundTrip ==
    \A e \in Endpoints :
        ( /\ IsSender(e) /\ IsReceiver(Peer(e))
          /\ args[Proc(Peer(e))].directory = WorldEmpty.directory
          /\ faults = 0
          /\ Ended(e) /\ Ended(Peer(e)) )
        => /\ sess[e].pc = "ok" /\ sess[Peer(e)].pc = "ok"
           /\ RelFiles(files[Proc(Peer(e))], dir[Proc(Peer(e))])
                 = RelFiles(files[Proc(e)], dir[Proc(e)])

\* C2: the bytes a sender session has put on its socket are, file after file
\* in the order it took them, name frame, size, content; a session that ended
\* with success wrote exactly these and then one u64 0, and nothing after it.
C2_WireSequence ==
    \A e \in Endpoints :
        IsSender(e) =>
            LET records == Encode(Source(e), dir[Proc(e)], sess[e].sent)
            IN  IF sess[e].pc = "ok"
                THEN out[e] = records \o to_be_bytes(0)
                ELSE IsPrefix(out[e], records)

C2_Witness ==
    \E e \in Endpoints :
        /\ IsSender(e) /\ sess[e].pc = "ok" /\ Len(sess[e].sent) = 2
        /\ Len(out[e]) > BUFFER_SIZE

\* C3: a receiver session that returned success has read a name frame of
\* length 0 and stands right behind it, whatever bytes follow; the step that
\* reads that frame creates no file and no directory.
C3_SentinelState ==
    \A e \in Endpoints :
        (IsReceiver(e) /\ sess[e].pc = "ok") =>
            \E fr \in NameFrames(out[Peer(e)], 0) :
                fr.len = 0 /\ rpos[e] = fr.at + U64_BYTES

C3_SentinelStep ==
    \A e \in Endpoints :
        (IsReceiver(e) /\ sess[e].pc # "ok" /\ sess'[e].pc = "ok")
            => (files' = files /\ dirs' = dirs /\ sess[e].pc = "r_namelen")

C3_Sentinel == []C3_SentinelState /\ [][C3_SentinelStep]_vars

C3_Witness ==
    \E e \in Endpoints :
        /\ IsReceiver(e) /\ sess[e].pc = "ok"
        /\ Len(out[Peer(e)]) > rpos[e]

\* C4: sending = NOT(listener XOR reverse), listener meaning no remote host:
\* without -r the connector sends and the listener receives, with -r the
\* listener sends and the connector receives.
C4_RoleResolution ==
    \A p \in Procs :
        (ppc[p] \notin {"main", "off"} /\ (p = "L" \/ kind[p] = "prog")) =>
            /\ server_mode[p] = (p = "L")
            /\ sending_mode[p] = IF args[p].reverse THEN p = "L" ELSE p # "L"
            /\ \A c \in Connectors :
                  ( /\ p = "L" /\ kind[c] = "prog" /\ ppc[c] \notin {"main", "off"}
                    /\ args[c].reverse = args[p].reverse )
                  => sending_mode[c] # sending_mode[p]

C4_Witness ==
    /\ args["L"].reverse /\ args["C1"].reverse
    /\ sess["L1"].pc = "w_name" /\ sess["C1"].pc = "r_name"

\* C9: read_string that read the length L has consumed the 8 length bytes;
\* with L >= 4096 it has failed and stands right behind them, with 0 < L < 4096
\* it goes on to read L bytes and after them stands L bytes further, with
\* L = 0 it has returned and stands right behind the length bytes.
C9_NameLengthGuard ==
    \A e \in Endpoints :
        IsReceiver(e) =>
            LET F == NameFrames(out[Peer(e)], 0)
            IN  /\ sess[e].err = "string should not be longer than 4096" =>
                      \E fr \in F : fr.len >= STRING_LIMIT /\ rpos[e] = fr.at + U64_BYTES
                /\ sess[e].pc = "r_name" =>
                      \E fr \in F : /\ fr.len > 0 /\ fr.len < STRING_LIMIT
                                    /\ sess[e].need = fr.len
                                    /\ rpos[e] = fr.at + U64_BYTES
                /\ sess[e].pc = "r_size" =>
                      \E fr \in F : /\ fr.len > 0 /\ fr.len < STRING_LIMIT
                                    /\ rpos[e] = fr.at + U64_BYTES + fr.len
                /\ sess[e].pc = "ok" =>
                      \E fr \in F : fr.len = 0 /\ rpos[e] = fr.at + U64_BYTES

C9_Witness ==
    \E e \in Endpoints :
        /\ IsReceiver(e)
        /\ sess[e].err = "string should not be longer than 4096"
        /\ Len(out[Peer(e)]) > rpos[e]

\* C10: every name frame a sender writes for a file has a length L with
\* 0 < L < 4096.
C10_SentNamesShort ==
    \A e \in Endpoints :
        IsSender(e) =>
            \A fr \in NameFrames(out[e], 0) :
                fr.len < STRING_LIMIT /\ (fr.len = 0 => sess[e].pc = "ok")

\* C5: two connectors of this program connected to one listener in sending
\* mode: a connector whose own run was not ended by its user ends with success
\* and holds every file of the listener's directory, whatever happened to the
\* other connector's session.
C5_EachConnectorComplete ==
    \A c \in Connectors :
        ( /\ sending_mode["L"]
          /\ \A d \in Connectors : kind[d] = "prog" /\ conn[d] # "none"
          /\ IsReceiver(c)
          /\ ppc[c] \in {"exit_ok", "exit_err"} )
        => /\ ppc[c] = "exit_ok"
           /\ RelFiles(files["L"], dir["L"]) \subseteq RelFiles(files[c], dir[c])

\* the listener's file p holds what some record of stream st gave for it
FromStream(p, st) ==
    \E r \in Records(st, 0) :
        /\ OsPath(full_name(dir["L"], r.name)) = p
        /\ files["L"][p] = r.content

\* C6 as stated: a listener in receive mode whose two sessions both ended with
\* success: every file they wrote holds what one single session's stream gave
\* for it.
C6_NeverAMix ==
    ( /\ \A e \in ListenerEnds : IsReceiver(e) /\ sess[e].pc = "ok"
      /\ \A c \in Connectors : kind[c] = "prog" )
    => \A p \in Range(sess["L1"].sent) \cup Range(sess["L2"].sent) :
          FromStream(p, out["C1"]) \/ FromStream(p, out["C2"])

\* C6 as amended: the sessions of a listener share its file system.  A file
\* that a successful receive session wrote and no other session of the
\* listener wrote holds exactly what that session's own stream gave for it,
\* whatever the other session did; a file that two concurrent sessions both
\* receive can end as a mix of the two contents.
C6_OwnStreamAlone ==
    \A e \in ListenerEnds :
        (IsReceiver(e) /\ sess[e].pc = "ok") =>
            \A p \in Range(sess[e].sent) :
                (\A e2 \in ListenerEnds \ {e} : p \notin Range(sess[e2].sent))
                    => FromStream(p, out[Peer(e)])

C6_Witness ==
    /\ \A e \in ListenerEnds : IsReceiver(e) /\ sess[e].pc = "ok"
    /\ Range(sess["L1"].sent) # {}
    /\ Range(sess["L2"].sent) # {}
    /\ Range(sess["L1"].sent) \cap Range(sess["L2"].sent) = {}

ListenerState ==
    << conn, files["L"], dirs["L"], [e \in ListenerEnds |-> sess[e]],
       [e \in ListenerEnds |-> out[e]], [e \in ListenerEnds |-> rpos[e]] >>

\* C7 as stated: once a session of the listener has failed, no session of the
\* listener completes.
C7_NoneCompletesAfterFailure ==
    [][ (\E e \in ListenerEnds : sess[e].pc = "err")
            => \A e2 \in ListenerEnds : sess'[e2].pc = "ok" => sess[e2].pc = "ok" ]_vars

\* C7 as amended: a failed session of the listener leads to the end of the
\* whole process with a nonzero status; from then on no session of the
\* listener and no accept takes a step.  Between the failure and the end of
\* the process another session can still complete.
C7_FailureEndsProcess ==
    /\ (\E e \in ListenerEnds : sess[e].pc = "err") ~> (ppc["L"] = "exit_err")
    /\ [](ppc["L"] # "exit_ok")
    /\ [][ ~Alive("L") => (ListenerState' = ListenerState /\ ppc'["L"] = ppc["L"]) ]_vars

C7_Witness ==
    /\ ppc["L"] = "exit_err"
    /\ \E e \in ListenerEnds : sess[e].pc = "err"
    /\ \E e \in ListenerEnds : sess[e].pc \notin {"none", "ok", "err"}

\* C8: a connection that has arrived is accepted and given its own session
\* for as long as the listener process runs, whether or not the sessions
\* dispatched before it have completed.
C8_AcceptNeverWaits ==
    \A c \in Connectors :
        (conn[c] = "pending") ~> (conn[c] = "accepted" \/ ~Alive("L"))

C8_Witness ==
    /\ kind["C1"] = "raw" /\ open["C1"]
    /\ sess["L1"].pc = "r_namelen" /\ Avail("L1") < U64_BYTES
    /\ conn["C2"] = "accepted" /\ sess["L2"].pc # "none"

\* the file the receive session of endpoint e wrote last
LastFile(e) == sess[e].sent[Len(sess[e].sent)]

\* C11: in a receive session, for the declared size L of the file at hand: the
\* content loop has taken off bytes off the socket in reads of 1024 bytes, the
\* last one of 1..1024 bytes, ceil(L/1024) reads when the L bytes are taken;
\* the file then holds exactly those bytes; read_chunk is never asked for 0
\* bytes; and with the L-th byte taken the session stands on the first byte of
\* the next name frame.
C11_ChunkExact ==
    \A e \in Endpoints :
        (IsReceiver(e) /\ sess[e].sent # << >>) =>
            LET L == sess[e].size
                s == sess[e]
                content == files[Proc(e)][LastFile(e)]
            IN  /\ s.err # "reading zero buffer is not allowed"
                /\ s.off <= L /\ s.len = L - s.off
                /\ Len(content) = s.off
                /\ s.off < L => s.off = s.turns * BUFFER_SIZE
                /\ s.off = L => s.turns = (L + BUFFER_SIZE - 1) \div BUFFER_SIZE
                /\ s.pc = "r_chunk" => (s.len > 0 /\ ChunkLen(s.len) \in 1..BUFFER_SIZE)
                /\ (s.off = L /\ s.pc = "r_namelen") =>
                      \E r \in Records(out[Peer(e)], 0) :
                          /\ rpos[e] = r.end
                          /\ r.content = content
                          /\ Len(r.content) = L

C11_Witness ==
    \E e \in Endpoints :
        /\ IsReceiver(e) /\ sess[e].pc = "r_namelen"
        /\ Len(sess[e].sent) = 2
        /\ sess[e].size = 2 * BUFFER_SIZE /\ sess[e].turns = 2
        /\ \E q \in Range(sess[e].sent) : files[Proc(e)][q] = << >>

\* endpoint e sends a directory in which the walk finds no file
SendsNothing(e) == IsSender(e) /\ WalkDir(Source(e), dir[Proc(e)]) = {}

\* C12: a sender session over a directory without files writes one u64 0, 8
\* bytes, and nothing else; the receiver session that reads them creates no
\* file and no directory and, nobody ending either process, ends with success.
C12_EmptyState ==
    \A e \in Endpoints :
        SendsNothing(e) =>
            /\ out[e] = IF sess[e].pc = "ok" THEN << 0, 0, 0, 0, 0, 0, 0, 0 >> ELSE << >>
            /\ IsReceiver(Peer(e)) =>
                  /\ sess[Peer(e)].sent = << >>
                  /\ sess[Peer(e)].pc \in {"r_namelen", "ok", "err"}
                  /\ sess[Peer(e)].pc = "ok" => rpos[Peer(e)] = U64_BYTES
                  /\ (sess[Peer(e)].pc = "err" /\ sess[e].pc = "ok") => faults > 0

C12_EmptyStep ==
    \A e \in Endpoints :
        (SendsNothing(e) /\ IsReceiver(Peer(e))) =>
            /\ files'[Proc(Peer(e))] = files[Proc(Peer(e))]
            /\ dirs'[Proc(Peer(e))] = dirs[Proc(Peer(e))]

C12_EmptyDirectory == []C12_EmptyState /\ [][C12_EmptyStep]_vars

C12_Witness ==
    \E e \in Endpoints :
        /\ SendsNothing(e) /\ sess[e].pc = "ok"
        /\ IsReceiver(Peer(e)) /\ sess[Peer(e)].pc = "ok"
        /\ args[Proc(Peer(e))].directory = WorldEmpty.directory
        /\ files[Proc(Peer(e))] = NoFiles

\* C13: every file record a sender writes is for a regular file: no entry that
\* is a symbolic link, a link to a regular file included, gets a name frame.
C13_OnlyRegularFiles ==
    \A e \in Endpoints :
        IsSender(e) =>
            \A i \in 1..Len(sess[e].sent) :
                /\ sess[e].sent[i] \in DOMAIN files[Proc(e)]
                /\ sess[e].sent[i] \notin DOMAIN links[Proc(e)]

\* process p runs this program and the path it was given is no directory
NotADirectory(p) ==
    /\ p = "L" \/ kind[p] = "prog"
    /\ OsPath(args[p].directory) \notin dirs[p]

\* C14: a run whose directory path does not exist or is not a directory ends
\* with an error straight from main: it never comes to bind, accept or
\* connect, has no connection and no session, and nothing is on its sockets.
C14_ConfigFirst ==
    \A p \in Procs :
        NotADirectory(p) =>
            /\ ppc[p] \in {"main", "exit_err"}
            /\ \A e \in Endpoints :
                  Proc(e) = p => (sess[e] = NoSession /\ out[e] = << >> /\ rpos[e] = 0)
            /\ p = "L" => \A c \in Connectors : conn[c] = "none"
            /\ p \in Connectors => conn[p] = "none"

C14_Witness ==
    /\ NotADirectory("L") /\ ppc["L"] = "exit_err"
    /\ NotADirectory("C1") /\ ppc["C1"] = "exit_err"
    /\ args["L"].directory = HostNotDir.directory
    /\ args["C1"].directory = HostMissing.directory

\* C15: for every relative path p of a host, normalize_name(p) holds no path
\* separator and denormalize_name(normalize_name(p)) is p again.
C15_NormalizeRoundTrip ==
    /\ names.pc \in {"wire", "back"} =>
          /\ MAIN_SEPARATOR \notin Range(names.wire)
          /\ Len(names.wire) = Len(names.path)
    /\ names.pc = "back" => names.back = names.path

C15_Witness ==
    /\ names.pc = "back"
    /\ names.path = << 47, 97, 47, 46 >>
    /\ names.wire = << 0, 97, 0, 46 >>

\* C16: the length taken once before streaming governs the content a sender
\* writes for a file, also when the file changes size meanwhile: never more
\* content bytes than the declared size, and the count of bytes left never
\* goes below zero.
C16_DeclaredSizeGoverns ==
    \A e \in Endpoints :
        IsSender(e) =>
            /\ sess[e].off <= sess[e].size
            /\ sess[e].len <= sess[e].size
            /\ sess[e].pc # "panic"

\* C17 as stated: the missing parent directories of the destination are
\* created before the declared length is read: a session that has the name
\* and not yet the length has the destination's parent directory.
C17_PathBeforeLength ==
    \A e \in Endpoints :
        (IsReceiver(e) /\ sess[e].pc = "r_size") =>
            Parent(sess[e].file) \in dirs[Proc(e)]

\* C17 as amended: the receiver reads the declared length first and creates
\* the missing parent directories after it, before it creates the file: a
\* step that adds a directory is one of a session that has just read the 8
\* bytes of the length, a session that has created its file has the parent
\* directory, and a session that fails while reading the length has created
\* no directory.
C17_LengthFirstState ==
    \A e \in Endpoints :
        (IsReceiver(e) /\ sess[e].sent # << >>) =>
            Parent(LastFile(e)) \in dirs[Proc(e)]

C17_LengthFirstStep ==
    \A p \in Procs :
        dirs'[p] # dirs[p] =>
            \E e \in Endpoints :
                /\ Proc(e) = p /\ sess[e].pc = "r_size"
                /\ rpos'[e] = rpos[e] + U64_BYTES
                /\ dirs'[p] = dirs[p] \cup AncestorsOrSelf(Parent(sess[e].file))

C17_LengthBeforePath == []C17_LengthFirstState /\ [][C17_LengthFirstStep]_vars

C17_Witness ==
    \E e \in Endpoints :
        /\ IsReceiver(e) /\ sess[e].pc = "err" /\ sess[e].err = "early eof"
        /\ sess[e].file # << >>
        /\ Target(links[Proc(e)], sess[e].file) \notin Range(sess[e].sent)
        /\ Parent(sess[e].file) \notin dirs[Proc(e)]

\* where, in stream st, the content of its last, unfinished record starts
PartialStart(st) ==
    LET F == NameFrames(st, 0)
        fr == CHOOSE f \in F : \A g \in F : g.at <= f.at
    IN  fr.at + U64_BYTES + fr.len + U64_BYTES

\* C18: no rollback.  Of a receive session that failed, every file completed
\* before holds the full content its record gave, the file being written when
\* it failed is on disk with the bytes written so far, and the step that
\* fails, like every other step, removes no file and no directory and leaves
\* the content of the files as it is.
C18_NoRollbackState ==
    \A e \in Endpoints :
        (IsReceiver(e) /\ sess[e].pc = "err") =>
            \A i \in 1..Len(sess[e].sent) :
                LET q == sess[e].sent[i]
                    st == out[Peer(e)]
                IN  /\ q \in DOMAIN files[Proc(e)]
                    /\ IF i < Len(sess[e].sent) \/ sess[e].off = sess[e].size
                       THEN \E r \in Records(st, 0) :
                               /\ Target(links[Proc(e)], full_name(dir[Proc(e)], r.name)) = q
                               /\ files[Proc(e)][q] = r.content
                       ELSE files[Proc(e)][q]
                               = SubSeq(st, PartialStart(st) + 1,
                                        PartialStart(st) + sess[e].off)

C18_NoRollbackStep ==
    \A e \in Endpoints :
        IsReceiver(e) =>
            /\ dirs[Proc(e)] \subseteq dirs'[Proc(e)]
            /\ DOMAIN files[Proc(e)] \subseteq DOMAIN files'[Proc(e)]
            /\ (sess[e].pc # "err" /\ sess'[e].pc = "err") =>
                  \A q \in DOMAIN files[Proc(e)] :
                      files'[Proc(e)][q] = files[Proc(e)][q]

C18_NoRollback == []C18_NoRollbackState /\ [][C18_NoRollbackStep]_vars

C18_Witness ==
    \E e \in Endpoints :
        /\ IsReceiver(e) /\ sess[e].pc = "err"
        /\ Len(sess[e].sent) = 2
        /\ sess[e].off = BUFFER_SIZE /\ sess[e].size = BUFFER_SIZE + 1
        /\ Len(files[Proc(e)][LastFile(e)]) = BUFFER_SIZE
        /\ Len(files[Proc(e)][sess[e].sent[1]]) = 1

\* C19: every turn of the sender's content loop puts at least one content
\* byte on the socket or ends the session with an error; a turn that finds
\* the file at its end, shorter than its declared size, ends the session with
\* "writing zero buffer is not allowed" and writes nothing; and a session
\* that runs does not stay in the loop for ever.
C19_TurnStep ==
    \A e \in Endpoints :
        (sess[e].pc = "w_chunk" /\ sess'[e] # sess[e]) =>
            /\ Len(out'[e]) > Len(out[e]) \/ sess'[e].pc = "err"
            /\ sess[e].off >= Len(Source(e)[sess[e].file]) =>
                  /\ sess'[e].pc = "err"
                  /\ sess'[e].err = "writing zero buffer is not allowed"
                  /\ out'[e] = out[e]

C19_LoopTerminates ==
    /\ [][C19_TurnStep]_vars
    /\ \A e \in Endpoints :
          (sess[e].pc = "w_chunk") ~> (sess[e].pc # "w_chunk" \/ ~Alive(Proc(e)))

C19_Witness ==
    \E e \in Endpoints :
        /\ IsSender(e) /\ sess[e].pc = "err"
        /\ sess[e].err = "writing zero buffer is not allowed"
        /\ sess[e].off > 0 /\ sess[e].off < sess[e].size

\* C20: for every canonical sender root, the file-system root included, the
\* relative name of every file sent starts with the path separator, so its
\* Wire Name starts with NUL, and the path the receiver builds from it, its
\* own root followed by the denormalized name, lies inside the receiver's root.
C20_NamesInsideRoot ==
    \A e \in Endpoints :
        IsSender(e) =>
            \A i \in 1..Len(sess[e].sent) :
                LET rel == relative_file_name(sess[e].sent[i], dir[Proc(e)])
                    d == dir[Proc(Peer(e))]
                IN  /\ rel # << >> /\ rel[1] = MAIN_SEPARATOR
                    /\ normalize_name(rel)[1] = NUL
                    /\ IsReceiver(Peer(e)) =>
                          IsUnder(OsPath(full_name(d, normalize_name(rel))), d)

====
